---- MODULE Spec2Model ----
(***************************************************************************)
(* Model of the voice-cloning synthesizer, src/voice_cloning.py:           *)
(* VoiceCloner (load_config, initialize_model, get_voice_sample_path,      *)
(* validate_voice_sample, generate_speech, post_process_audio,             *)
(* batch_generate) and the entry point main().                             *)
(*                                                                         *)
(* Data representation.  A Python scalar is a tuple of string tokens, so   *)
(* that a path such as output/clip.wav is <<"output/", "clip", ".wav">>    *)
(* and str.replace / string concatenation act on tokens.  None is the      *)
(* one-token tuple <<"None">>.  A YAML/Python value is a node: a scalar    *)
(* Val(s) or a dict Map(f), f a function from key strings to nodes.        *)
(***************************************************************************)
EXTENDS Integers, Sequences, FiniteSets, TLC

VARIABLES
    cfgFile,            \* the configuration file on disk: [kind, doc]
    fs,                 \* the set of paths of the files that exist
    args,               \* the parsed command line (argparse namespace)
    pc,                 \* position of main()
    exitCode,           \* -1 while running, else the process exit status
    config,             \* self.config
    tts,                \* self.tts: 0 is None, n > 0 the n-th engine handle
    voice_sample_path,  \* main's local voice_sample_path
    gen,                \* the activation of generate_speech
    batch,              \* the activation of batch_generate
    hist,               \* history: what the run has done so far
    rec                 \* record_voice.py: the run of the recorder

vars == <<cfgFile, fs, args, pc, exitCode, config, tts, voice_sample_path,
          gen, batch, hist, rec>>

(***************************************************************************)
(* Values                                                                  *)
(***************************************************************************)
None == <<"None">>

EmptyMap == [k \in {} |-> None]

Val(s) == [t |-> "val", m |-> EmptyMap, v |-> s]

Map(f) == [t |-> "map", m |-> f, v |-> None]

\* An outcome of a call: a returned value, or the exception it raised.
Ok(v) == [kind |-> "ok", v |-> v]

Raise(exc, about) == [kind |-> exc, v |-> about]

\* isinstance(x, dict)
IsDict(x) == x.t = "map"

\* d.get(key, dflt) on a dict node d, the result as a scalar
DictGet(d, key, dflt) == IF key \in DOMAIN d.m THEN d.m[key].v ELSE dflt

(***************************************************************************)
(* load_config                                                             *)
(***************************************************************************)
\* The defaults literal of load_config.
Defaults ==
    [voices |-> Map(EmptyMap),
     model  |-> Map([name        |-> Val(<<"tts_models/multilingual/multi-dataset/xtts_v2">>),
                     temperature |-> Val(<<"0.7">>),
                     speed       |-> Val(<<"1.0">>)]),
     output |-> Map([format      |-> Val(<<"wav">>),
                     sample_rate |-> Val(<<"44100">>),
                     normalize   |-> Val(<<"True">>)])]

\* The value of config after the `if os.path.exists ... if not isinstance`
\* prefix: the document when it is a mapping, otherwise the empty dict.
\* (The case in which open() or yaml.safe_load raises is LoadRaises.)
LoadedDict(file) ==
    IF file.kind = "doc" /\ IsDict(file.doc) THEN file.doc.m ELSE EmptyMap

\* open() raises on a path that exists but cannot be opened for reading,
\* yaml.safe_load raises yaml.YAMLError on text that is not well-formed YAML.
LoadRaises(file) == file.kind \in {"unreadable", "malformed"}

\* One iteration of `for key, value in defaults.items()`.
MergeSection(cfg, key) ==
    IF key \notin DOMAIN cfg THEN Defaults[key]
    ELSE IF IsDict(Defaults[key]) /\ IsDict(cfg[key])
         THEN Map([sk \in DOMAIN cfg[key].m \cup DOMAIN Defaults[key].m |->
                      IF sk \in DOMAIN cfg[key].m THEN cfg[key].m[sk]
                      ELSE Defaults[key].m[sk]])
         ELSE cfg[key]

\* The merge loop, only one level of nesting deep (a section whose user value is
\* not a dict keeps the user value as it is).
MergeDefaults(cfg) ==
    [k \in DOMAIN cfg \cup DOMAIN Defaults |->
        IF k \in DOMAIN Defaults THEN MergeSection(cfg, k) ELSE cfg[k]]

\* load_config(config_path) when it returns.
load_config(file) == MergeDefaults(LoadedDict(file))

(***************************************************************************)
(* The configuration files the runs start from                             *)
(***************************************************************************)
\* A sample path a configuration may declare for the voice "alex".
DeclaredPath == <<"samples/", "alex", ".wav">>

\* The marker of a key the user's document does not hold.
Absent == [t |-> "absent", m |-> EmptyMap, v |-> None]

UserModelKeys == [temperature |-> Val(<<"0.9">>), speed |-> Val(<<"1.2">>)]

\* What the user may write under `model:`: any subset of the two generation
\* keys, or nothing at all (YAML null).
ModelChoices ==
    {Absent, Val(None)} \cup
    {Map([k \in S |-> UserModelKeys[k]]) : S \in SUBSET DOMAIN UserModelKeys}

OutputChoices ==
    {Absent, Val(<<"mp3">>), Map(EmptyMap), Map([format |-> Val(<<"mp3">>)])}

VoicesChoices ==
    {Absent, Val(None), Map(EmptyMap),
     Map([alex |-> Map([sample_path |-> Val(DeclaredPath)])]),
     Map([alex |-> Map(EmptyMap)]),
     Map([alex |-> Val(DeclaredPath)])}

\* The document with the three sections chosen.
UserDoc(v, m, o) ==
    LET ch == [voices |-> v, model |-> m, output |-> o]
    IN  Map([k \in {x \in DOMAIN ch : ch[x] # Absent} |-> ch[k]])

DocFile(d) == [kind |-> "doc", doc |-> d]

\* A file that is missing, that open() cannot read, or that is not YAML.
NoDocFiles == {[kind |-> k, doc |-> Val(None)] : k \in {"absent", "unreadable", "malformed"}}

\* A file that is missing, or whose text is not well-formed YAML.
AbsentOrMalformed == {f \in NoDocFiles : f.kind \in {"absent", "malformed"}}

\* Well-formed YAML that is not a mapping: an empty file, a scalar, a list.
NonMappingFiles == {DocFile(Val(None)), DocFile(Val(<<"text">>)), DocFile(Val(<<"[list]">>))}

AllConfigFiles ==
    NoDocFiles \cup NonMappingFiles \cup
    {DocFile(UserDoc(v, m, o)) : v \in VoicesChoices, m \in ModelChoices, o \in OutputChoices}

(***************************************************************************)
(* History                                                                 *)
(***************************************************************************)
NoHist ==
    [initError |-> FALSE,           \* "Error initializing voice cloner" was printed
     resolved  |-> Ok(None),        \* the outcome of main's get_voice_sample_path
     uncaught  |-> FALSE,           \* an exception left main() uncaught
     ctor      |-> <<>>,            \* the calls of the engine's constructor TTS(...)
     calls     |-> <<>>,            \* the calls of the engine's tts(...)
     reqs      |-> <<>>,            \* the calls of generate_speech
     errors    |-> <<>>,            \* batch: the files of "Error processing ..."
     skipped   |-> <<>>,            \* batch: the files of "Skipping empty file ..."
     readError |-> "none",          \* single: the exception of open(args.input)
     emptyText |-> FALSE,           \* single: "Error: Text is empty" was printed
     interrupted |-> FALSE]         \* a KeyboardInterrupt ended the process

(***************************************************************************)
(* main(): construction of the VoiceCloner                                 *)
(***************************************************************************)
NoArgs == [mode |-> "none", voice |-> "alex"]

NoGen == [pc |-> "idle", caller |-> "none"]

NoBatch == [pc |-> "idle", idx |-> 0, voice |-> None]

\* A sample as validate_audio measures it: len(audio) in milliseconds, the
\* peak np.max(np.abs(y)) in thousandths of full scale, the SNR estimate in
\* tenths of a dB.
Measure(len, peak, snr) == [len |-> len, peak |-> peak, snr |-> snr]

NoReport == [printed |-> <<>>, ret |-> FALSE]

\* The run of record_voice.py: the position of main(), the arguments, the
\* frames read so far, the audio that processing produced, what
\* validate_audio reported, and the lines printed.
Recorder(at, mode, duration, pyaudio) ==
    [pc |-> at, mode |-> mode, duration |-> duration, pyaudio |-> pyaudio,
     num_chunks |-> 0, frames |-> 0, audio |-> Measure(0, 0, 0),
     report |-> NoReport, out |-> <<>>]

NoRec == Recorder("off", "none", 0, FALSE)

\* The state before main() does anything, for the file f.
Start(f) ==
    /\ cfgFile = f
    /\ pc = "start"
    /\ exitCode = -1
    /\ config = EmptyMap
    /\ tts = 0
    /\ voice_sample_path = None
    /\ gen = NoGen
    /\ batch = NoBatch
    /\ hist = NoHist
    /\ rec = NoRec

\* cloner = VoiceCloner(args.config) succeeds.
ConstructOk ==
    /\ pc = "start"
    /\ ~LoadRaises(cfgFile)
    /\ config' = load_config(cfgFile)
    /\ tts' = 0
    /\ pc' = "resolve"
    /\ UNCHANGED <<rec, cfgFile, fs, args, exitCode, voice_sample_path, gen, batch, hist>>

\* VoiceCloner(args.config) raises: "Error initializing voice cloner", exit(1).
ConstructRaises ==
    /\ pc = "start"
    /\ LoadRaises(cfgFile)
    /\ pc' = "exit"
    /\ exitCode' = 1
    /\ hist' = [hist EXCEPT !.initError = TRUE]
    /\ UNCHANGED <<rec, cfgFile, fs, args, config, tts, voice_sample_path, gen, batch>>

(***************************************************************************)
(* get_voice_sample_path                                                   *)
(***************************************************************************)
\* The extensions probed, in the order of the for loop.
VoiceExts == <<".wav", ".mp3", ".flac">>

\* voices_dir / f"{voice_name}{ext}"
VoicesDirPath(name, ext) == <<"voices/", name, ext>>

\* The loop over the extensions: the first candidate that exists, otherwise
\* FileNotFoundError, whose message names the voices/ directory.
ProbeVoicesDir(name, files) ==
    LET hits == {i \in DOMAIN VoiceExts : VoicesDirPath(name, VoiceExts[i]) \in files}
    IN  IF hits = {}
        THEN Raise("FileNotFoundError", <<"voices/">>)
        ELSE Ok(VoicesDirPath(name, VoiceExts[CHOOSE i \in hits : \A j \in hits : i <= j]))

\* return voices[voice_name].get('sample_path'): the entry's sample_path, None
\* when the entry has none, AttributeError when the entry is not a dict.
DeclaredSample(entry) ==
    IF IsDict(entry)
    THEN Ok(DictGet(entry, "sample_path", None))
    ELSE Raise("AttributeError", <<"get">>)

get_voice_sample_path(cfg, name, files) ==
    LET voices == IF "voices" \in DOMAIN cfg THEN cfg["voices"] ELSE Map(EmptyMap)
    IN  IF IsDict(voices) /\ name \in DOMAIN voices.m
        THEN DeclaredSample(voices.m[name])
        ELSE ProbeVoicesDir(name, files)

(***************************************************************************)
(* main(): "Get voice sample path"                                         *)
(***************************************************************************)
ResolveVoiceOk ==
    /\ pc = "resolve"
    /\ LET r == get_voice_sample_path(config, args.voice, fs)
       IN  /\ r.kind = "ok"
           /\ voice_sample_path' = r.v
           /\ hist' = [hist EXCEPT !.resolved = r]
    /\ pc' = "dispatch"
    /\ UNCHANGED <<rec, cfgFile, fs, args, exitCode, config, tts, gen, batch>>

\* except FileNotFoundError: print, sys.exit(1).  Any other exception is not
\* caught here and ends the process with a traceback (exit status 1).
ResolveVoiceRaises ==
    /\ pc = "resolve"
    /\ LET r == get_voice_sample_path(config, args.voice, fs)
       IN  /\ r.kind # "ok"
           /\ hist' = [hist EXCEPT !.resolved = r,
                                   !.uncaught = (r.kind # "FileNotFoundError")]
    /\ pc' = "exit"
    /\ exitCode' = 1
    /\ UNCHANGED <<rec, cfgFile, fs, args, config, tts, voice_sample_path, gen, batch>>

(***************************************************************************)
(* generate_speech: the pure parts                                         *)
(***************************************************************************)
\* A variant of the check that reloads the engine on every call.
ModelNotLoaded_Always(handle) == handle >= 0

\* `if self.tts is None` of initialize_model.
ModelNotLoaded(handle) == handle = 0

\* self.config['model']['name'] raises TypeError when the model section is
\* not a dict (None, a scalar); the merge put `name` into every dict.
ModelNameReadable(cfg) == IsDict(cfg["model"])

\* A variant that does not check that the file exists.
validate_voice_sample_NoCheck(audio_path, files) ==
    IF audio_path = None THEN Raise("TypeError", audio_path) ELSE Ok(<<"True">>)

\* The existence check of validate_voice_sample; os.path.exists(None) raises
\* TypeError.  The duration branches only print.
validate_voice_sample(audio_path, files) ==
    IF audio_path = None THEN Raise("TypeError", audio_path)
    ELSE IF audio_path \notin files THEN Raise("FileNotFoundError", audio_path)
    ELSE Ok(<<"True">>)

\* "Use config values if not specified": what the local variable holds after
\* the `if <param> is None` statement.
EffectiveParam(cfg, given, key, builtin) ==
    IF given = None THEN DictGet(cfg["model"], key, builtin) ELSE given

\* What a decimal number prints as in an f-string.
Digits == <<"1", "2", "3", "4", "5", "6", "7", "8", "9">>

OutputDir == <<"output/">>

\* output_dir.glob('*'): the entries directly under output/.
OutputEntries(files) == {q \in files : Len(q) > 1 /\ q[1] = "output/"}

\* output_dir / f"output_{len(list(output_dir.glob('*'))) + 1}.wav"
AutoOutputPath(files) ==
    <<"output/", "output_", Digits[Cardinality(OutputEntries(files)) + 1], ".wav">>

\* str(output_path) + ".temp.wav"
TempPath(output_path) == output_path \o <<".temp", ".wav">>

\* str(output_path).replace('.wav', '.mp3'): every occurrence is replaced.
ReplaceWavByMp3(path) ==
    [i \in DOMAIN path |-> IF path[i] = ".wav" THEN ".mp3" ELSE path[i]]

\* The path post_process_audio exports to.
ExportPath(cfg, output_path) ==
    IF DictGet(cfg["output"], "format", <<"wav">>) = <<"mp3">>
    THEN ReplaceWavByMp3(output_path)
    ELSE output_path

\* A file can be created when its directory exists; the working directory does.
CanCreate(path, files) == path[1] = "output/" => OutputDir \in files

\* The arguments generate_speech hands to self.tts.tts(...).
EngineArgs(g, speed) ==
    [text |-> g.text, speaker_wav |-> g.voice, language |-> g.language, speed |-> speed]

(***************************************************************************)
(* generate_speech: the activation                                         *)
(***************************************************************************)
\* The call generate_speech(text, voice_sample_path, output_path, language,
\* temperature, speed) made by `caller` for the batch file `file`.
NewGen(caller, file, text, voice, out, temperature, speed) ==
    [pc |-> "initialize_model", caller |-> caller, file |-> file, text |-> text,
     voice |-> voice, out |-> out, language |-> <<"en">>,
     temperature |-> temperature, speed |-> speed, temp_path |-> None]

\* What the history keeps of one call.
NewReq(g) ==
    [file |-> g.file, given |-> g, out |-> None, auto |-> FALSE,
     takenBefore |-> FALSE, temperature |-> None, speed |-> None,
     sampleMissing |-> FALSE, synth |-> 0, temp |-> {}, exported |-> <<>>,
     overwrote |-> FALSE, raised |-> "none", ret |-> None, retExists |-> FALSE]

Call(caller, file, text, voice, out, temperature, speed) ==
    LET g == NewGen(caller, file, text, voice, out, temperature, speed)
    IN  /\ gen' = g
        /\ hist' = [hist EXCEPT !.reqs = Append(@, NewReq(g))]

\* The number of the call in progress.
Cur == Len(hist.reqs)

\* The exception exc leaves generate_speech.
GenRaise(exc) ==
    /\ gen' = [gen EXCEPT !.pc = "raised"]
    /\ hist' = [hist EXCEPT !.reqs[Cur].raised = exc]

GenRest == <<rec, cfgFile, args, pc, exitCode, config, voice_sample_path, batch>>

\* initialize_model, self.tts is set already.
GenModelLoaded ==
    /\ gen.pc = "initialize_model"
    /\ ~ModelNotLoaded(tts)
    /\ gen' = [gen EXCEPT !.pc = "validate"]
    /\ UNCHANGED <<fs, tts, hist>> /\ UNCHANGED GenRest

\* initialize_model, self.tts is None: TTS(model_name).to(device) returns.
GenLoadModel ==
    /\ gen.pc = "initialize_model"
    /\ ModelNotLoaded(tts)
    /\ ModelNameReadable(config)
    /\ tts' = Len(hist.ctor) + 1
    /\ gen' = [gen EXCEPT !.pc = "validate"]
    /\ hist' = [hist EXCEPT !.ctor = Append(@, [call |-> Cur, ok |-> TRUE])]
    /\ UNCHANGED fs /\ UNCHANGED GenRest

\* initialize_model raises: the model section cannot be read, or the engine's
\* constructor fails (download, memory, unknown model).  self.tts stays None.
GenLoadModelRaises ==
    /\ gen.pc = "initialize_model"
    /\ ModelNotLoaded(tts)
    /\ \/ /\ ~ModelNameReadable(config)
          /\ gen' = [gen EXCEPT !.pc = "raised"]
          /\ hist' = [hist EXCEPT !.reqs[Cur].raised = "TypeError"]
       \/ /\ ModelNameReadable(config)
          /\ gen' = [gen EXCEPT !.pc = "raised"]
          /\ hist' = [hist EXCEPT !.reqs[Cur].raised = "EngineLoadError",
                                  !.ctor = Append(@, [call |-> Cur, ok |-> FALSE])]
    /\ UNCHANGED <<fs, tts>> /\ UNCHANGED GenRest

\* self.validate_voice_sample(voice_sample_path) returns.
GenValidate ==
    /\ gen.pc = "validate"
    /\ validate_voice_sample(gen.voice, fs).kind = "ok"
    /\ gen' = [gen EXCEPT !.pc = "resolve"]
    /\ UNCHANGED <<fs, tts, hist>> /\ UNCHANGED GenRest

\* self.validate_voice_sample(voice_sample_path) raises: the path is None or
\* names no file, or AudioSegment.from_file cannot decode the file.
GenValidateRaises ==
    /\ gen.pc = "validate"
    /\ LET r == validate_voice_sample(gen.voice, fs)
       IN  \/ /\ r.kind # "ok"
              /\ gen' = [gen EXCEPT !.pc = "raised"]
              /\ hist' = [hist EXCEPT !.reqs[Cur].raised = r.kind,
                                      !.reqs[Cur].sampleMissing = TRUE]
           \/ /\ r.kind = "ok"
              /\ GenRaise("CouldntDecodeError")
    /\ UNCHANGED <<fs, tts>> /\ UNCHANGED GenRest

\* "Use config values if not specified" and "Generate output path if not
\* specified" (output_dir.mkdir(exist_ok=True) creates output/).
GenResolve ==
    /\ gen.pc = "resolve"
    /\ LET auto == gen.out = None
           dirs == IF auto THEN fs \cup {OutputDir} ELSE fs
           out  == IF auto THEN AutoOutputPath(dirs) ELSE gen.out
           t    == EffectiveParam(config, gen.temperature, "temperature", <<"0.7">>)
           sp   == EffectiveParam(config, gen.speed, "speed", <<"1.0">>)
       IN  /\ fs' = dirs
           /\ gen' = [gen EXCEPT !.pc = "synth", !.out = out,
                                 !.temperature = t, !.speed = sp]
           /\ hist' = [hist EXCEPT !.reqs[Cur].out = out,
                                   !.reqs[Cur].auto = auto,
                                   !.reqs[Cur].takenBefore = (out \in fs),
                                   !.reqs[Cur].temperature = t,
                                   !.reqs[Cur].speed = sp]
    /\ UNCHANGED tts /\ UNCHANGED GenRest

\* wav = self.tts.tts(text=..., speaker_wav=..., language=..., speed=speed)
GenSynth ==
    /\ gen.pc = "synth"
    /\ gen' = [gen EXCEPT !.pc = "write"]
    /\ hist' = [hist EXCEPT !.reqs[Cur].synth = @ + 1,
                            !.calls = Append(@, [call |-> Cur, handle |-> tts,
                                                 args |-> EngineArgs(gen, gen.speed)])]
    /\ UNCHANGED <<fs, tts>> /\ UNCHANGED GenRest

\* self.tts.tts(...) raises: `except Exception`, print, raise.
GenSynthRaises ==
    /\ gen.pc = "synth"
    /\ gen' = [gen EXCEPT !.pc = "raised"]
    /\ hist' = [hist EXCEPT !.reqs[Cur].synth = @ + 1,
                            !.reqs[Cur].raised = "EngineError",
                            !.calls = Append(@, [call |-> Cur, handle |-> tts,
                                                 args |-> EngineArgs(gen, gen.speed)])]
    /\ UNCHANGED <<fs, tts>> /\ UNCHANGED GenRest

\* temp_path = str(output_path) + ".temp.wav"; sf.write(temp_path, ...)
GenWriteTemp ==
    /\ gen.pc = "write"
    /\ LET temp == TempPath(gen.out)
       IN  /\ CanCreate(temp, fs)
           /\ fs' = fs \cup {temp}
           /\ gen' = [gen EXCEPT !.pc = "post", !.temp_path = temp]
           /\ hist' = [hist EXCEPT !.reqs[Cur].temp = {temp}]
    /\ UNCHANGED tts /\ UNCHANGED GenRest

\* sf.write raises: the directory of the output path does not exist.
GenWriteTempRaises ==
    /\ gen.pc = "write"
    /\ ~CanCreate(TempPath(gen.out), fs)
    /\ GenRaise("OSError")
    /\ UNCHANGED <<fs, tts>> /\ UNCHANGED GenRest

\* self.post_process_audio(temp_path, output_path) returns: the audio is
\* exported to output_path, or to its .mp3 rewriting.
GenPostProcess ==
    /\ gen.pc = "post"
    /\ IsDict(config["output"])
    /\ LET final == ExportPath(config, gen.out)
       IN  /\ fs' = fs \cup {final}
           /\ hist' = [hist EXCEPT !.reqs[Cur].exported = Append(@, final),
                                   !.reqs[Cur].overwrote = (final \in fs)]
    /\ gen' = [gen EXCEPT !.pc = "remove"]
    /\ UNCHANGED tts /\ UNCHANGED GenRest

\* post_process_audio raises: self.config['output'].get on a section that is
\* not a dict, or a failure of the audio library (decoding, the encoder of
\* the export).  The temp file stays; no export is completed.
GenPostProcessRaises ==
    /\ gen.pc = "post"
    /\ \/ ~IsDict(config["output"]) /\ GenRaise("AttributeError")
       \/ IsDict(config["output"]) /\ GenRaise("AudioError")
    /\ UNCHANGED <<fs, tts>> /\ UNCHANGED GenRest

\* "Remove temp file", print, return output_path.
GenReturn ==
    /\ gen.pc = "remove"
    /\ fs' = fs \ {gen.temp_path}
    /\ gen' = [gen EXCEPT !.pc = "returned"]
    /\ hist' = [hist EXCEPT !.reqs[Cur].ret = gen.out,
                            !.reqs[Cur].retExists = (gen.out \in fs')]
    /\ UNCHANGED tts /\ UNCHANGED GenRest

\* A KeyboardInterrupt while generate_speech runs. It is no Exception: it
\* passes the `except Exception` of generate_speech, of the batch loop and
\* of main, and ends the process; nothing is removed on the way.
GenInterrupted ==
    /\ gen.pc \in {"initialize_model", "validate", "resolve", "synth", "write",
                  "post", "remove"}
    /\ gen' = [gen EXCEPT !.pc = "interrupted"]
    /\ hist' = [hist EXCEPT !.reqs[Cur].raised = "KeyboardInterrupt",
                            !.interrupted = TRUE]
    /\ pc' = "exit"
    /\ exitCode' = 130
    /\ UNCHANGED <<rec, cfgFile, fs, args, config, tts, voice_sample_path, batch>>

generate_speech ==
    \/ GenModelLoaded \/ GenLoadModel \/ GenLoadModelRaises
    \/ GenValidate \/ GenValidateRaises
    \/ GenResolve
    \/ GenSynth \/ GenSynthRaises
    \/ GenWriteTemp \/ GenWriteTempRaises
    \/ GenPostProcess \/ GenPostProcessRaises
    \/ GenReturn

(***************************************************************************)
(* main(): single mode                                                     *)
(***************************************************************************)
MainRest == <<rec, cfgFile, fs, args, config, tts, voice_sample_path, batch>>

\* Whitespace, as str.strip() sees it.
IsSpace(tok) == tok \in {" ", "\n"}

\* f.read().strip()
RECURSIVE Strip(_)
Strip(text) ==
    IF text = <<>> THEN text
    ELSE IF IsSpace(Head(text)) THEN Strip(Tail(text))
    ELSE IF IsSpace(text[Len(text)]) THEN Strip(SubSeq(text, 1, Len(text) - 1))
    ELSE text

\* The file --input names: whether it is there, and what it holds.
NoInput == [exists |-> FALSE, text |-> <<>>]

\* "Single file mode": `if args.text:` fails for no text and for the text "".
ReadsInput == args.mode = "input" \/ (args.mode = "text" /\ args.text = <<>>)

\* open(args.input) raises: TypeError for the None that --input is when the
\* text "" was given, FileNotFoundError for a file that is not there.
OpenRaises ==
    IF args.mode = "text" THEN "TypeError"
    ELSE IF ~args.input.exists THEN "FileNotFoundError"
    ELSE "none"

\* text = args.text, or text = f.read().strip()
SingleText == IF ReadsInput THEN Strip(args.input.text) ELSE args.text

\* open(args.input) raised; `except Exception`: print, sys.exit(1).
SingleOpenRaises ==
    /\ pc = "dispatch"
    /\ ReadsInput
    /\ OpenRaises # "none"
    /\ pc' = "exit"
    /\ exitCode' = 1
    /\ hist' = [hist EXCEPT !.readError = OpenRaises]
    /\ UNCHANGED <<rec, cfgFile, fs, args, config, tts, voice_sample_path, gen, batch>>

\* if not text: print("Error: Text is empty"); sys.exit(1). The SystemExit
\* passes `except Exception` and ends the process with the status 1.
SingleEmptyText ==
    /\ pc = "dispatch"
    /\ ReadsInput
    /\ OpenRaises = "none"
    /\ SingleText = <<>>
    /\ pc' = "exit"
    /\ exitCode' = 1
    /\ hist' = [hist EXCEPT !.emptyText = TRUE]
    /\ UNCHANGED <<rec, cfgFile, fs, args, config, tts, voice_sample_path, gen, batch>>

\* "Single file mode" with a text: the call of generate_speech.
SingleCall ==
    /\ pc = "dispatch"
    /\ args.mode \in {"text", "input"}
    /\ ReadsInput => OpenRaises = "none"
    /\ SingleText # <<>>
    /\ Call("main", "-", SingleText, voice_sample_path, args.output,
            args.temperature, args.speed)
    /\ pc' = "single_call"
    /\ UNCHANGED <<rec, cfgFile, fs, args, exitCode, config, tts, voice_sample_path, batch>>

\* generate_speech returned; os.path.getsize(output_path) finds the file, and
\* main ends normally.
SingleSuccess ==
    /\ pc = "single_call"
    /\ gen.pc = "returned"
    /\ gen.out \in fs
    /\ pc' = "exit"
    /\ exitCode' = 0
    /\ gen' = [gen EXCEPT !.pc = "idle"]
    /\ UNCHANGED hist /\ UNCHANGED MainRest

\* generate_speech returned a path at which there is no file: getsize raises
\* FileNotFoundError; `except Exception`: print, sys.exit(1).
SingleGetsizeRaises ==
    /\ pc = "single_call"
    /\ gen.pc = "returned"
    /\ gen.out \notin fs
    /\ pc' = "exit"
    /\ exitCode' = 1
    /\ gen' = [gen EXCEPT !.pc = "idle"]
    /\ UNCHANGED hist /\ UNCHANGED MainRest

\* generate_speech raised; `except Exception`: print, sys.exit(1).
SingleFails ==
    /\ pc = "single_call"
    /\ gen.pc = "raised"
    /\ pc' = "exit"
    /\ exitCode' = 1
    /\ gen' = [gen EXCEPT !.pc = "idle"]
    /\ UNCHANGED hist /\ UNCHANGED MainRest

(***************************************************************************)
(* batch_generate                                                          *)
(***************************************************************************)
\* Path('output') / (text_file.stem + '_voiceover.wav')
BatchOutputPath(stem) == <<"output/", stem, "_voiceover", ".wav">>

BatchRest == <<rec, cfgFile, fs, args, config, tts, voice_sample_path>>

\* batch_generate up to the loop: the directory check, the voice, the glob.
\* The files are taken in the order the directory lists them.
BatchEnter ==
    /\ pc = "dispatch"
    /\ args.mode = "batch"
    /\ LET r == get_voice_sample_path(config, args.voice, fs)
       IN  IF ~args.dirExists \/ r.kind # "ok"
           THEN /\ pc' = "exit"          \* raised; `except Exception` of main
                /\ exitCode' = 1
                /\ UNCHANGED batch
           ELSE IF args.files = <<>>
           THEN /\ pc' = "exit"          \* "No .txt files found", return
                /\ exitCode' = 0
                /\ UNCHANGED batch
           ELSE /\ pc' = "batch"
                /\ batch' = [pc |-> "loop", idx |-> 1, voice |-> r.v]
                /\ UNCHANGED exitCode
    /\ UNCHANGED <<gen, hist>> /\ UNCHANGED BatchRest

\* The text file the loop is at.
BatchFile == args.files[batch.idx]

\* An empty text: "Skipping empty file", continue.
BatchSkipEmpty ==
    /\ pc = "batch" /\ batch.pc = "loop"
    /\ batch.idx <= Len(args.files)
    /\ Strip(BatchFile.text) = <<>>
    /\ batch' = [batch EXCEPT !.idx = @ + 1]
    /\ hist' = [hist EXCEPT !.skipped = Append(@, BatchFile.stem)]
    /\ UNCHANGED <<pc, exitCode, gen>> /\ UNCHANGED BatchRest

\* self.generate_speech(text, voice_sample_path, output_path, language)
BatchCall ==
    /\ pc = "batch" /\ batch.pc = "loop"
    /\ batch.idx <= Len(args.files)
    /\ Strip(BatchFile.text) # <<>>
    /\ Call("batch", BatchFile.stem, Strip(BatchFile.text), batch.voice,
            BatchOutputPath(BatchFile.stem), None, None)
    /\ batch' = [batch EXCEPT !.pc = "call"]
    /\ UNCHANGED <<pc, exitCode>> /\ UNCHANGED BatchRest

\* generate_speech returned: the next file.
BatchContinue ==
    /\ pc = "batch" /\ batch.pc = "call"
    /\ gen.pc = "returned"
    /\ batch' = [batch EXCEPT !.pc = "loop", !.idx = @ + 1]
    /\ gen' = [gen EXCEPT !.pc = "idle"]
    /\ UNCHANGED <<pc, exitCode, hist>> /\ UNCHANGED BatchRest

\* A variant of the handler that lets the exception end the loop.
BatchOnError_Abort ==
    /\ pc = "batch" /\ batch.pc = "call"
    /\ gen.pc = "raised"
    /\ hist' = [hist EXCEPT !.errors = Append(@, BatchFile.stem)]
    /\ pc' = "exit"
    /\ exitCode' = 1
    /\ gen' = [gen EXCEPT !.pc = "idle"]
    /\ UNCHANGED batch /\ UNCHANGED BatchRest

\* except Exception as e: print(f"Error processing {text_file}: {e}"); continue
BatchOnError ==
    /\ pc = "batch" /\ batch.pc = "call"
    /\ gen.pc = "raised"
    /\ hist' = [hist EXCEPT !.errors = Append(@, BatchFile.stem)]
    /\ batch' = [batch EXCEPT !.pc = "loop", !.idx = @ + 1]
    /\ gen' = [gen EXCEPT !.pc = "idle"]
    /\ UNCHANGED <<pc, exitCode>> /\ UNCHANGED BatchRest

\* The loop is over: batch_generate returns and main ends normally.
BatchDone ==
    /\ pc = "batch" /\ batch.pc = "loop"
    /\ batch.idx > Len(args.files)
    /\ pc' = "exit"
    /\ exitCode' = 0
    /\ batch' = [batch EXCEPT !.pc = "done"]
    /\ UNCHANGED <<gen, hist>> /\ UNCHANGED BatchRest

batch_generate ==
    \/ BatchEnter \/ BatchSkipEmpty \/ BatchCall \/ BatchContinue
    \/ BatchOnError \/ BatchDone

(***************************************************************************)
(* The runs of the synthesizer                                             *)
(***************************************************************************)
\* The most text files the batch directory holds.
MaxFiles == 3

\* The most numbered outputs output/ holds when a run starts.
MaxOutputs == 2

Stems == <<"a", "b", "c", "d", "e">>

\* What a text file may hold: only whitespace, or a sentence.
FileTexts == {<<"\n">>, <<"hi", "\n">>}

\* The listings of the batch directory: up to MaxFiles text files.
FileLists ==
    UNION {{[i \in 1..n |-> [stem |-> Stems[i], text |-> t[i]]] : t \in [1..n -> FileTexts]}
           : n \in 0..MaxFiles}

\* What output/ may hold when a run starts: earlier numbered outputs (any of
\* them deleted since) and a file of another name.
OldOutputs ==
    {<<"output/", "output_", Digits[i], ".wav">> : i \in 1..MaxOutputs}
        \cup {<<"output/", "notes", ".txt">>}

ConventionalSample == VoicesDirPath("alex", ".wav")

CliArgs(mode, text, output, temperature, speed, dirExists, files) ==
    [mode |-> mode, voice |-> "alex", text |-> text, output |-> output,
     temperature |-> temperature, speed |-> speed,
     dirExists |-> dirExists, files |-> files, input |-> NoInput]

SingleConfigFiles ==
    {f \in NoDocFiles : f.kind = "malformed"} \cup
    {DocFile(UserDoc(v, m, o)) :
        v \in {Absent, Map([alex |-> Map([sample_path |-> Val(DeclaredPath)])]),
               Map([alex |-> Map(EmptyMap)])},
        m \in {Absent, Val(None), Map(UserModelKeys),
               Map([temperature |-> UserModelKeys.temperature])},
        o \in {Absent, Val(<<"mp3">>), Map([format |-> Val(<<"mp3">>)])}}

\* python voice_cloning.py "hi" --voice alex [--output ...] [-t ...] [-s ...]
InitSingle ==
    /\ \E f \in SingleConfigFiles : Start(f)
    /\ \E samples \in SUBSET {ConventionalSample, DeclaredPath},
          old \in SUBSET OldOutputs,
          out \in {None, <<"clip", ".wav">>, <<"clip">>, <<"output/", "clip", ".wav">>},
          hasDir \in BOOLEAN,
          ts \in {<<None, None>>, <<None, <<"1.5">> >>, << <<"0.5">>, <<"1.5">> >>} :
        /\ out # None => old = {}
        /\ old # {} => hasDir
        /\ fs = samples \cup old \cup (IF hasDir THEN {OutputDir} ELSE {})
        /\ args = CliArgs("text", <<"hi">>, out, ts[1], ts[2], FALSE, <<>>)

BatchConfigFiles ==
    {DocFile(UserDoc(v, m, o)) :
        v \in {Absent, Map([alex |-> Map([sample_path |-> Val(DeclaredPath)])])},
        m \in {Absent, Map(UserModelKeys)},
        o \in {Absent, Map([format |-> Val(<<"mp3">>)])}}

\* python voice_cloning.py --batch texts/ --voice alex
InitBatch ==
    /\ \E f \in BatchConfigFiles : Start(f)
    /\ \E samples \in {{ConventionalSample}, {DeclaredPath}},
          hasDir \in BOOLEAN, dirExists \in BOOLEAN, files \in FileLists :
        /\ ~dirExists => files = <<>>
        /\ fs = samples \cup (IF hasDir THEN {OutputDir} ELSE {})
        /\ args = CliArgs("batch", None, None, None, None, dirExists, files)

\* The files --input may name: none, one of whitespace, one of a sentence.
InputFiles ==
    {NoInput} \cup {[exists |-> TRUE, text |-> t] : t \in {<<" ", "\n">>, <<"hi", "\n">>}}

\* python voice_cloning.py --input script.txt --voice alex
\* python voice_cloning.py "" --voice alex
InitInput ==
    /\ \E f \in BatchConfigFiles : Start(f)
    /\ \E samples \in SUBSET {ConventionalSample}, hasDir \in BOOLEAN :
          fs = samples \cup (IF hasDir THEN {OutputDir} ELSE {})
    /\ \/ \E i \in InputFiles :
              args = [CliArgs("input", None, None, None, None, FALSE, <<>>)
                          EXCEPT !.input = i]
       \/ args = CliArgs("text", <<>>, None, None, None, FALSE, <<>>)

Init == InitSingle \/ InitBatch \/ InitInput

main ==
    \/ ConstructOk \/ ConstructRaises
    \/ ResolveVoiceOk \/ ResolveVoiceRaises
    \/ SingleOpenRaises \/ SingleEmptyText
    \/ SingleCall \/ SingleSuccess \/ SingleGetsizeRaises \/ SingleFails

Next == main \/ batch_generate \/ generate_speech

Spec == Init /\ [][Next]_vars

\* The runs of the synthesizer that the user may interrupt.
NextInterrupt == Next \/ GenInterrupted

SpecInterrupt == Init /\ [][NextInterrupt]_vars

(***************************************************************************)
(* The specification of the configuration resolver alone                   *)
(***************************************************************************)
InitConfig ==
    /\ \E f \in AllConfigFiles : Start(f)
    /\ fs = {}
    /\ args = NoArgs

NextConfig == ConstructOk \/ ConstructRaises

SpecConfig == InitConfig /\ [][NextConfig]_vars

(***************************************************************************)
(* The specification of voice resolution alone                             *)
(***************************************************************************)
VoiceNames == {"alex", "bob"}

\* The files a voice may be found at: the conventional ones and the declared one.
VoiceFiles ==
    {VoicesDirPath(n, VoiceExts[i]) : n \in {"alex"}, i \in DOMAIN VoiceExts}
        \cup {DeclaredPath}

InitVoice ==
    /\ \E v \in VoicesChoices : Start(DocFile(UserDoc(v, Absent, Absent)))
    /\ fs \in SUBSET VoiceFiles
    /\ \E n \in VoiceNames : args = [NoArgs EXCEPT !.voice = n]

NextVoice == ConstructOk \/ ResolveVoiceOk \/ ResolveVoiceRaises

SpecVoice == InitVoice /\ [][NextVoice]_vars


(***************************************************************************)
(* record_voice.py: validate_audio                                         *)
(***************************************************************************)
\* if duration < 6:
MinDuration == 6

\* elif duration > 30:
MaxDuration == 30

\* np.max(np.abs(y)) > 0.99, in hundredths of full scale
ClipLevel == 99

\* if snr_estimate < 10:
MinSnr == 10

\* A variant of the duration check that takes 6 s itself as short.
DurationAdvice_ShortAtSix(len) ==
    IF len <= MinDuration * 1000 THEN <<"too_short">>
    ELSE IF len > MaxDuration * 1000 THEN <<"first_30s">>
    ELSE <<"optimal">>

\* duration = len(audio) / 1000.0; if duration < 6 / elif duration > 30 / else
DurationAdvice(len) ==
    IF len < MinDuration * 1000 THEN <<"too_short">>
    ELSE IF len > MaxDuration * 1000 THEN <<"first_30s">>
    ELSE <<"optimal">>

\* if np.max(np.abs(y)) > 0.99 / else
LevelAdvice(peak) ==
    IF peak > ClipLevel * 10 THEN <<"clipping">> ELSE <<"levels_good">>

\* if snr_estimate < 10 / else
NoiseAdvice(snr) ==
    IF snr < MinSnr * 10 THEN <<"noise">> ELSE <<"quality_good">>

\* validate_audio, for a file that holds samples: the advisories it prints,
\* in order, and what it returns.
validate_audio(m) ==
    [printed |-> DurationAdvice(m.len) \o LevelAdvice(m.peak) \o NoiseAdvice(m.snr),
     ret |-> TRUE]

(***************************************************************************)
(* record_voice.py: main, record_audio, process_audio                      *)
(***************************************************************************)
target_sample_rate == 22050

chunk_size == 1024

\* num_chunks = int(self.target_sample_rate / self.chunk_size * duration)
NumChunks(duration) == (target_sample_rate * duration) \div chunk_size

\* --input raw.wav, --output voices/me.wav
InputPath == <<"raw", ".wav">>

RecOutput == <<"voices/", "me", ".wav">>

\* temp_path = output_path + ".temp.wav"
RecTempPath == RecOutput \o <<".temp", ".wav">>

\* temp_wav = str(output_path) + ".processing.wav"
ProcessingPath == RecOutput \o <<".processing", ".wav">>

RecRest == <<cfgFile, args, pc, config, tts, voice_sample_path, gen, batch, hist>>

\* The recorder goes on: to the position at, having printed the lines.
RecGoes(at, lines) == rec' = [rec EXCEPT !.pc = at, !.out = @ \o lines]

\* The process ends with the status code, having printed the lines.
RecExits(code, lines) ==
    /\ RecGoes("exit", lines)
    /\ exitCode' = code

\* main(): output_path.parent.mkdir; --input names no file: print, sys.exit(1).
RecInputMissing ==
    /\ rec.pc = "start" /\ rec.mode = "input"
    /\ InputPath \notin fs
    /\ fs' = fs \cup {<<"voices/">>}
    /\ RecExits(1, <<"input_not_found">>)
    /\ UNCHANGED RecRest

\* main(): recorder.process_audio(args.input, args.output) is entered.
RecInputGiven ==
    /\ rec.pc = "start" /\ rec.mode = "input"
    /\ InputPath \in fs
    /\ fs' = fs \cup {<<"voices/">>}
    /\ RecGoes("process", <<>>)
    /\ UNCHANGED <<exitCode>> /\ UNCHANGED RecRest

\* record_audio: import pyaudio fails: print, sys.exit(1).
RecNoPyaudio ==
    /\ rec.pc = "start" /\ rec.mode = "record"
    /\ ~rec.pyaudio
    /\ fs' = fs \cup {<<"voices/">>}
    /\ RecExits(1, <<"pyaudio_not_installed">>)
    /\ UNCHANGED RecRest

\* record_audio: the tips and the countdown.
RecCountdown ==
    /\ rec.pc = "start" /\ rec.mode = "record"
    /\ rec.pyaudio
    /\ fs' = fs \cup {<<"voices/">>}
    /\ RecGoes("countdown", <<>>)
    /\ UNCHANGED <<exitCode>> /\ UNCHANGED RecRest

\* record_audio: the stream is opened; frames = [], num_chunks.
RecOpenStream ==
    /\ rec.pc = "countdown"
    /\ rec' = [rec EXCEPT !.pc = "loop", !.frames = 0,
                          !.num_chunks = NumChunks(rec.duration),
                          !.out = @ \o <<"recording_now">>]
    /\ UNCHANGED <<fs, exitCode>> /\ UNCHANGED RecRest

\* audio.open raises (no input device): main's `except Exception`, sys.exit(1).
RecOpenRaises ==
    /\ rec.pc = "countdown"
    /\ RecExits(1, <<"error">>)
    /\ UNCHANGED fs /\ UNCHANGED RecRest

\* The loop: data = stream.read(...); frames.append(data)
RecReadChunk ==
    /\ rec.pc = "loop"
    /\ rec.frames < rec.num_chunks
    /\ rec' = [rec EXCEPT !.frames = @ + 1]
    /\ UNCHANGED <<fs, exitCode>> /\ UNCHANGED RecRest

\* stream.read raises: the finally clause closes the stream, the exception
\* reaches main's `except Exception`, sys.exit(1).
RecReadRaises ==
    /\ rec.pc = "loop"
    /\ rec.frames < rec.num_chunks
    /\ RecExits(1, <<"error">>)
    /\ UNCHANGED fs /\ UNCHANGED RecRest

\* The loop is over: "Recording complete!"; finally: the stream is closed.
RecLoopComplete ==
    /\ rec.pc = "loop"
    /\ rec.frames = rec.num_chunks
    /\ RecGoes("save", <<"recording_complete">>)
    /\ UNCHANGED <<fs, exitCode>> /\ UNCHANGED RecRest

\* A KeyboardInterrupt inside the try of the loop: `except KeyboardInterrupt`
\* prints "Recording interrupted", finally closes the stream, and
\* record_audio goes on after the try statement.
RecLoopInterrupted ==
    /\ rec.pc = "loop"
    /\ RecGoes("save", <<"recording_interrupted">>)
    /\ UNCHANGED <<fs, exitCode>> /\ UNCHANGED RecRest

\* record_audio: the frames are written to temp_path; "Processing audio...".
RecSaveTemp ==
    /\ rec.pc = "save"
    /\ fs' = fs \cup {RecTempPath}
    /\ RecGoes("process", <<>>)
    /\ UNCHANGED <<exitCode>> /\ UNCHANGED RecRest

\* The length in milliseconds of the frames read from the stream.
RecordedMs(frames) == (frames * chunk_size * 1000) \div target_sample_rate

\* What process_audio may write out of what it was given: a file of any
\* length for --input, and for a recording the frames read, or what trimming
\* the silence leaves of them. librosa.util.normalize puts the peak at full
\* scale.
ProcessedAudios ==
    IF rec.mode = "input"
    THEN {Measure(3000, 1000, 200), Measure(45000, 1000, 50)}
    ELSE {Measure(len, 1000, snr) :
            len \in {RecordedMs(rec.frames), RecordedMs(rec.frames) \div 2},
            snr \in {50, 200}}

\* process_audio: "Processing: ..."; the input is loaded, made mono,
\* normalized and exported to temp_wav.
ProcessExport ==
    /\ rec.pc = "process"
    /\ fs' = fs \cup {ProcessingPath}
    /\ RecGoes("process_export", <<"processing">>)
    /\ UNCHANGED <<exitCode>> /\ UNCHANGED RecRest

\* process_audio: temp_wav is loaded, trimmed and denoised, output_path is
\* written and temp_wav removed. A recording of no frames holds no signal
\* to trim: processing it raises.
ProcessWrite ==
    /\ rec.pc = "process_export"
    /\ rec.mode = "record" => rec.frames > 0
    /\ fs' = (fs \cup {RecOutput}) \ {ProcessingPath}
    /\ \E m \in ProcessedAudios :
          rec' = [rec EXCEPT !.pc = "validate", !.audio = m,
                             !.out = @ \o <<"processed">>]
    /\ UNCHANGED <<exitCode>> /\ UNCHANGED RecRest

\* process_audio raises (the audio cannot be decoded or written): main's
\* `except Exception`, sys.exit(1).
ProcessRaises ==
    /\ rec.pc \in {"process", "process_export"}
    /\ RecExits(1, IF rec.pc = "process" THEN <<"processing", "error">>
                    ELSE <<"error">>)
    /\ UNCHANGED fs /\ UNCHANGED RecRest

\* process_audio: self.validate_audio(output_path)
ValidateAudio ==
    /\ rec.pc = "validate"
    /\ rec' = [rec EXCEPT !.pc = IF rec.mode = "record" THEN "remove" ELSE "ready",
                          !.report = validate_audio(rec.audio)]
    /\ UNCHANGED <<fs, exitCode>> /\ UNCHANGED RecRest

\* record_audio: temp_path is removed; "Voice sample saved"; return.
RecRemoveTemp ==
    /\ rec.pc = "remove"
    /\ fs' = fs \ {RecTempPath}
    /\ RecGoes("ready", <<"voice_sample_saved">>)
    /\ UNCHANGED <<exitCode>> /\ UNCHANGED RecRest

\* main(): "Success! Voice sample ready"; main returns.
RecReady ==
    /\ rec.pc = "ready"
    /\ RecExits(0, <<"voice_sample_ready">>)
    /\ UNCHANGED fs /\ UNCHANGED RecRest

\* A KeyboardInterrupt outside the try of the loop reaches main's
\* `except KeyboardInterrupt`: "Operation cancelled by user", sys.exit(1).
RecCancelled ==
    /\ rec.pc \in {"countdown", "save", "process", "process_export",
                   "validate", "remove"}
    /\ RecExits(1, <<"operation_cancelled">>)
    /\ UNCHANGED fs /\ UNCHANGED RecRest

record_audio ==
    \/ RecNoPyaudio \/ RecCountdown \/ RecOpenStream \/ RecOpenRaises
    \/ RecReadChunk \/ RecReadRaises \/ RecLoopComplete \/ RecLoopInterrupted
    \/ RecSaveTemp \/ RecRemoveTemp

process_audio == ProcessExport \/ ProcessWrite \/ ProcessRaises \/ ValidateAudio

\* The longest recording asked for, in seconds.
MaxRecordSeconds == 2

\* python record_voice.py --output voices/me.wav [--duration d | --input raw.wav]
InitRecorder ==
    /\ cfgFile = [kind |-> "absent", doc |-> Val(None)]
    /\ pc = "start"
    /\ exitCode = -1
    /\ config = EmptyMap
    /\ tts = 0
    /\ voice_sample_path = None
    /\ gen = NoGen
    /\ batch = NoBatch
    /\ hist = NoHist
    /\ args = NoArgs
    /\ fs \in SUBSET {InputPath, RecOutput}
    /\ \/ \E d \in 1..MaxRecordSeconds, p \in BOOLEAN :
              rec = Recorder("start", "record", d, p)
       \/ rec = Recorder("start", "input", 0, FALSE)

NextRecorder ==
    \/ RecInputMissing \/ RecInputGiven
    \/ record_audio \/ process_audio
    \/ RecReady \/ RecCancelled

SpecRecorder == InitRecorder /\ [][NextRecorder]_vars

(***************************************************************************)
(* The specification of validate_audio alone                               *)
(***************************************************************************)
\* The longest sample validated, in seconds.
MaxSampleSeconds == 31

\* len(audio): the whole seconds, and a millisecond past and before each.
SampleLengths == {s * 1000 + f : s \in 0..MaxSampleSeconds, f \in {0, 1, 999}}

\* The peak: silence, half scale, 0.990, 0.991, full scale.
SamplePeaks == {0, 500, 990, 991, 1000}

\* The SNR estimate: 0 dB and more; a silent signal gives log10(0) = -inf,
\* which compares as a value far below the threshold does.
SampleSnrs == {-3000, 0, 99, 100, 101, 300}

\* validate_audio is called on a file that holds the sample.
InitValidate ==
    /\ cfgFile = [kind |-> "absent", doc |-> Val(None)]
    /\ pc = "start"
    /\ exitCode = -1
    /\ config = EmptyMap
    /\ tts = 0
    /\ voice_sample_path = None
    /\ gen = NoGen
    /\ batch = NoBatch
    /\ hist = NoHist
    /\ args = NoArgs
    /\ fs = {<<"voices/">>, RecOutput}
    /\ \E len \in SampleLengths, peak \in SamplePeaks, snr \in SampleSnrs :
          rec = [Recorder("validate", "input", 0, FALSE)
                     EXCEPT !.audio = Measure(len, peak, snr)]

NextValidate == ValidateAudio

SpecValidate == InitValidate /\ [][NextValidate]_vars


(***************************************************************************)
(* Claims about the configuration resolver                                 *)
(***************************************************************************)
\* The configuration has been resolved from a document that holds a mapping.
ResolvedFromMapping ==
    /\ pc # "start"
    /\ ~hist.initError
    /\ cfgFile.kind = "doc"
    /\ IsDict(cfgFile.doc)

\* C2: for every loaded mapping the resolved configuration holds every default
\* key of voices, model and output, every key the user supplied keeps the
\* user's value, and a key the user omitted in a section takes its default.
C2_MergeIsPerKey ==
    ResolvedFromMapping =>
        LET user == cfgFile.doc.m
        IN  \A s \in DOMAIN Defaults :
              /\ s \in DOMAIN config
              /\ IsDict(config[s])
              /\ \A k \in DOMAIN Defaults[s].m :
                    /\ k \in DOMAIN config[s].m
                    /\ (s \in DOMAIN user /\ k \in DOMAIN user[s].m)
                           => config[s].m[k] = user[s].m[k]
                    /\ ~(s \in DOMAIN user /\ k \in DOMAIN user[s].m)
                           => config[s].m[k] = Defaults[s].m[k]
              /\ s \in DOMAIN user =>
                    \A k \in DOMAIN user[s].m : config[s].m[k] = user[s].m[k]

\* C3: when the file is absent, is not readable as structured data, is empty
\* or holds no mapping, load_config returns the all-defaults configuration and
\* the construction of VoiceCloner does not end the process.
C3_ConfigNeverFails ==
    (pc # "start" /\ cfgFile \in AbsentOrMalformed \cup NonMappingFiles) =>
        /\ ~hist.initError
        /\ exitCode # 1
        /\ config = Defaults

(***************************************************************************)
(* Claims about voice resolution                                           *)
(***************************************************************************)
\* main's call of get_voice_sample_path has ended.
VoiceResolved == pc \notin {"start", "resolve"} /\ ~hist.initError

\* C4: get_voice_sample_path(name) returns voices[name].sample_path when the
\* configuration declares it; otherwise the first of voices/name.wav, .mp3,
\* .flac that exists; and when neither gives a sample it raises a not-found
\* error that names the voices/ directory.
C4_ResolutionOrder ==
    VoiceResolved =>
        LET voices   == config["voices"]
            name     == args.voice
            declares == /\ IsDict(voices)
                        /\ name \in DOMAIN voices.m
                        /\ "sample_path" \in DOMAIN voices.m[name].m
            found    == {i \in DOMAIN VoiceExts : <<"voices/", name, VoiceExts[i]>> \in fs}
        IN  IF declares
            THEN hist.resolved = Ok(voices.m[name].m["sample_path"].v)
            ELSE IF found # {}
            THEN \E i \in found :
                    /\ \A j \in found : i <= j
                    /\ hist.resolved = Ok(<<"voices/", name, VoiceExts[i]>>)
            ELSE hist.resolved = Raise("FileNotFoundError", <<"voices/">>)

\* C5: whenever get_voice_sample_path returns, the path it returns is the path
\* of a file that exists at that moment, for voices declared in the
\* configuration as well as for voices found in voices/.
C5_ResolvedPathExists ==
    (VoiceResolved /\ hist.resolved.kind = "ok") => hist.resolved.v \in fs

(***************************************************************************)
(* Claims about generate_speech                                            *)
(***************************************************************************)
\* C6: when generate_speech is called without an output path, the
\* auto-numbered path it chooses under output/ never names a file that exists
\* already, whatever output/ holds, and no existing output is overwritten.
C6_AutoPathIsFresh ==
    \A i \in DOMAIN hist.reqs :
        hist.reqs[i].auto => ~hist.reqs[i].takenBefore /\ ~hist.reqs[i].overwrote

\* The format the user configured, wav when the user configured none.
ConfiguredFormat == DictGet(config["output"], "format", <<"wav">>)

\* C7: the path generate_speech returns is the path of the file that
\* post-processing wrote: it exists after a successful call and carries the
\* .mp3 extension when the format is mp3.
C7_ReturnedPathIsWrittenFile ==
    \A i \in DOMAIN hist.reqs :
        LET r == hist.reqs[i]
        IN  r.ret # None =>
              /\ r.exported = <<r.ret>>
              /\ r.retExists
              /\ ConfiguredFormat = <<"mp3">> => r.ret[Len(r.ret)] = ".mp3"

\* The value the claim gives a generation parameter: the request's, otherwise
\* the one the user configured, otherwise the built-in default.
ClaimedParam(given, key, builtin) ==
    IF given # None THEN given
    ELSE IF /\ cfgFile.kind = "doc" /\ IsDict(cfgFile.doc)
            /\ "model" \in DOMAIN cfgFile.doc.m
            /\ key \in DOMAIN cfgFile.doc.m["model"].m
         THEN cfgFile.doc.m["model"].m[key].v
         ELSE builtin

\* C8: the speed and the temperature in effect are the request's values when
\* present, otherwise the configuration's, otherwise 0.7 and 1.0, in single
\* and in batch mode, and the resolved values are handed to the engine.
C8_EffectiveParamsReachEngine ==
    \A k \in DOMAIN hist.calls :
        LET c == hist.calls[k]
            g == hist.reqs[c.call].given
        IN  /\ "speed" \in DOMAIN c.args
            /\ c.args.speed = ClaimedParam(g.speed, "speed", <<"1.0">>)
            /\ "temperature" \in DOMAIN c.args
            /\ c.args.temperature = ClaimedParam(g.temperature, "temperature", <<"0.7">>)

\* C9: when the voice sample file does not exist, generation fails before the
\* engine is invoked: the call never gets past validate_voice_sample, makes no
\* synthesis call and writes neither a transient nor an output file.
C9_MissingSampleFailsBeforeEngine ==
    \A i \in DOMAIN hist.reqs :
        LET r == hist.reqs[i]
        IN  r.given.voice \notin fs =>
              /\ r.synth = 0
              /\ \A k \in DOMAIN hist.calls : hist.calls[k].call # i
              /\ r.temp = {} /\ r.exported = <<>> /\ r.ret = None
              /\ (i = Cur /\ gen.pc # "idle") =>
                     gen.pc \in {"initialize_model", "validate", "raised"}
              /\ r.raised \in {"none", "TypeError", "EngineLoadError", "FileNotFoundError"}

\* A call failed on a missing sample file with the engine loaded already.
C9_Witness ==
    \E i \in DOMAIN hist.reqs :
        /\ hist.reqs[i].raised = "FileNotFoundError"
        /\ hist.reqs[i].sampleMissing
        /\ hist.reqs[i].given.voice \notin fs
        /\ tts # 0

\* The calls of the engine's constructor that returned a handle.
Loads == {k \in DOMAIN hist.ctor : hist.ctor[k].ok}

\* C10 as stated: the engine is constructed on the first call of
\* generate_speech only.
C10_ConstructedOnFirstCallOnly ==
    \A k \in DOMAIN hist.ctor : k = 1 /\ hist.ctor[k].call = 1

\* C10 amended: the engine is loaded at most once per process; a call
\* constructs it only while no earlier call has loaded it, at most once per
\* call, and every synthesis call uses the one handle that was loaded.
C10_LoadedOnceAndReused ==
    /\ Cardinality(Loads) <= 1
    /\ \A k \in Loads : k = Len(hist.ctor) /\ tts = k
    /\ Loads = {} => tts = 0
    /\ \A j, k \in DOMAIN hist.ctor : j < k => hist.ctor[j].call < hist.ctor[k].call
    /\ \A k \in DOMAIN hist.calls : hist.calls[k].handle \in Loads

\* The first call failed to load the engine, the second loaded it, and the
\* third synthesized with the handle of the second.
C10_Witness ==
    /\ Len(hist.ctor) = 2
    /\ ~hist.ctor[1].ok /\ hist.ctor[1].call = 1
    /\ hist.ctor[2].ok /\ hist.ctor[2].call = 2
    /\ \E k \in DOMAIN hist.calls : hist.calls[k].call = 3 /\ hist.calls[k].handle = 2

(***************************************************************************)
(* Claims about batch_generate                                             *)
(***************************************************************************)
\* How many times x occurs in the sequence sq.
Count(sq, x) == Cardinality({k \in DOMAIN sq : sq[k] = x})

\* The handler of the batch loop has dealt with call i.
Handled(i) == i < Cur \/ gen.pc = "idle"

\* The text files that hold a text.
NonBlank == {k \in DOMAIN args.files : Strip(args.files[k].text) # <<>>}

SingleMode == args.mode \in {"text", "input"}

\* The run did what it was asked to do: in single mode generate_speech
\* returned the path of the audio, in batch mode batch_generate went through
\* the directory and returned.
RunSucceeded ==
    /\ ~hist.initError
    /\ hist.resolved.kind = "ok"
    /\ IF SingleMode
       THEN hist.reqs # <<>> /\ hist.reqs[1].ret # None
       ELSE args.dirExists /\ get_voice_sample_path(config, args.voice, fs).kind = "ok"

\* The fatal errors: a voice that cannot be resolved, a missing input file
\* or batch directory, an empty text, an engine failure in single mode.
FatalError ==
    \/ hist.resolved.kind # "ok"
    \/ args.mode = "input" /\ ~args.input.exists
    \/ args.mode = "batch" /\ ~args.dirExists
    \/ args.mode = "text" /\ args.text = <<>>
    \/ args.mode = "input" /\ args.input.exists /\ Strip(args.input.text) = <<>>
    \/ SingleMode /\ hist.reqs # <<>> /\ hist.reqs[1].raised # "none"

\* C11: when the process has ended, its exit code is 0 exactly when the run
\* succeeded, and it is not 0 after any of the fatal errors.
C11_ExitCodeTellsSuccess ==
    pc = "exit" =>
        /\ (exitCode = 0) <=> RunSucceeded
        /\ FatalError => exitCode # 0

(***************************************************************************)
(* Claims about the recorder                                               *)
(***************************************************************************)
\* The recorder has printed the line.
Printed(line) == \E i \in DOMAIN rec.out : rec.out[i] = line

\* C12: once the interrupt has arrived inside the recording loop, the
\* recorder does not process the partial recording, does not report the
\* voice sample as ready, and does not exit with the code 0.
C12_InterruptEndsRecorder ==
    Printed("recording_interrupted") =>
        /\ ~Printed("processing")
        /\ ~Printed("voice_sample_ready")
        /\ exitCode # 0

(***************************************************************************)
(* Claims about the transient file of generate_speech                      *)
(***************************************************************************)
\* The call r of generate_speech has ended: it returned, or an exception or
\* an interrupt left it.
Ended(r) == r.ret # None \/ r.raised # "none"

\* C13: after a call of generate_speech that wrote <output>.temp.wav has
\* ended, by a return, a failure or an interrupt, that file does not exist.
C13_TempFileDiscarded ==
    \A i \in DOMAIN hist.reqs :
        Ended(hist.reqs[i]) => hist.reqs[i].temp \cap fs = {}

(***************************************************************************)
(* Claims about validate_audio                                             *)
(***************************************************************************)
DurationAdvisories == {"too_short", "first_30s", "optimal"}

\* validate_audio has reported the advisory.
Issued(advisory) ==
    \E i \in DOMAIN rec.report.printed : rec.report.printed[i] = advisory

\* C14: once validate_audio has been called on a sample, it has returned
\* True and has issued exactly one advisory about the duration: too short
\* below 6 s, first 30 s above 30 s, optimal from 6 s to 30 s inclusive,
\* whatever the peak and the SNR estimate are.
C14_DurationAdvisoryNeverBlocks ==
    rec.pc \in {"remove", "ready"} =>
        /\ rec.report.ret = TRUE
        /\ Cardinality({i \in DOMAIN rec.report.printed :
                           rec.report.printed[i] \in DurationAdvisories}) = 1
        /\ Issued("too_short") <=> rec.audio.len < 6000
        /\ Issued("first_30s") <=> rec.audio.len > 30000
        /\ Issued("optimal") <=> (rec.audio.len >= 6000 /\ rec.audio.len <= 30000)

\* A sample of exactly 6 s that clips and is noisy has been validated: the
\* duration is reported optimal next to the two warnings.
C14_Witness ==
    /\ rec.pc = "ready"
    /\ rec.audio = Measure(6000, 1000, 99)
    /\ rec.report = [printed |-> <<"optimal", "clipping", "noise">>, ret |-> TRUE]
====
